---- MODULE Spec2Model ----
(***************************************************************************)
(* A model of the events library (src/Events.h): Server<TYPE>::request,    *)
(* Server<TYPE>::trigger (one-shot and repeated), Request<TYPE>::          *)
(* start_handling / stop_handling / cancel, RequestWithBI<TYPE>::handle    *)
(* with the BusyInterface queue, and RequestHandle<TYPE>::cancel.          *)
(*                                                                         *)
(* Every thread owns a call stack of frames; the top frame is the call in  *)
(* progress and its pc is the position in the source.  One action is one   *)
(* atomic step of the source: an atomic read-modify-write, a mutex         *)
(* acquisition together with the code run under it when that code touches  *)
(* only data the mutex protects, or the start or the end of a callback.    *)
(*                                                                         *)
(* Nodes of the memory pools are named and never handed out twice: a node  *)
(* that was freed stays "freed" (utils/NodeMemoryPool is not part of the   *)
(* sources).                                                               *)
(***************************************************************************)
EXTENDS Integers, Sequences, FiniteSets, Bags, TLC

\* ------------------------------------------------------------ bounds
\* The number of trigger() calls one thread makes.
MaxTriggers == 2
\* The depth to which the client nests its own set_busy() calls.
MaxManual == 1

\* ------------------------------------------------------------ constants
s_cancel_marker == 65536

NULL == "NULL"
NoThread == "none"
HEAD == "HEAD"

Threads == {"t1", "t2", "c"}
Triggerers == {"t1", "t2"}
Client == "c"

RepeatedServers == {"s1", "s2"}
OneShotServers == {"o1"}
Servers == RepeatedServers \cup OneShotServers
one_shot(s) == s \in OneShotServers

BusyInterfaces == {"b1"}

\* The nodes of the request pools, in the order in which they are handed out.
RequestSeq == <<"r1", "r2", "r3">>
Requests == {RequestSeq[i] : i \in 1..Len(RequestSeq)}

NoData == <<>>
NoEvent == [m_request |-> NULL, m_data |-> NoData, seq |-> 0, back |-> FALSE]
NoFrame == [pc |-> "none", srv |-> NULL, data |-> NoData, next |-> NULL,
            request |-> NULL, head |-> NULL, qe |-> NoEvent, reg |-> {}, gone |-> {},
            handle_count |-> 0]

VARIABLES
  m_handle_count,        \* Request::m_handle_count
  m_next,                \* Request::m_next
  m_busy_interface,      \* RequestWithBI::m_busy_interface (NULL for a plain Request)
  server_of,             \* the Server whose pool the node belongs to
  alloc,                 \* pool state of a node: "pool", "live" or "freed"
  m_request,             \* RequestHandle::m_request of the handle returned for the node
  m_cancel_mutex,        \* Request::m_cancel_mutex: the owning thread or NoThread
  cv_waiting,            \* Request::m_cancel_cv: "no", "parked" or "notified"
  m_request_list,        \* Server::m_request_list
  m_request_list_mutex,  \* Server::m_request_list_mutex: the owning thread or NoThread
  m_busy_depth,          \* BusyInterface::m_busy_depth
  m_events,              \* BusyInterface::m_events
  stack,                 \* per thread: the frames of the calls in progress
  ntrig,                 \* per thread: the number of trigger() calls started
  crashed,               \* a thread dereferenced a freed node and the process died
  \* history
  handled,               \* bag of <<request, data>>: calls of handle()
  delivered,             \* bag of <<request, data>>: invocations of m_callback
  expected,              \* <<request, data>>: registered before the trigger started and
                         \* not cancelled when the trigger took the list mutex
  detached_by,           \* per node: the data of the one-shot trigger that detached it
  pushed,                \* per busy interface: number of QueuedEvents created
  manual,                \* per busy interface: set_busy() calls of the client not yet undone
  log,                   \* <<"start", request, data>>: a start_handling() that returned
                         \* OK; <<"call", request, data>>: an invocation of m_callback;
                         \* in the order in which they happened
  track                  \* which of the histories are recorded: a subset of
                         \* {"calls", "expect", "order", "log"}, fixed by the initial state

vars == <<m_handle_count, m_next, m_busy_interface, server_of, alloc, m_request,
          m_cancel_mutex, cv_waiting, m_request_list, m_request_list_mutex,
          m_busy_depth, m_events, stack, ntrig, crashed,
          handled, delivered, expected, detached_by, pushed, manual, log, track>>

reqVars == <<m_next, m_busy_interface, server_of, alloc>>
listVars == <<m_request_list, m_request_list_mutex>>
cancelVars == <<m_cancel_mutex, cv_waiting>>
busyVars == <<m_busy_depth, m_events, pushed, manual>>
histVars == <<handled, delivered, expected, detached_by, log, track>>

\* ------------------------------------------------------------ machine integers
\* std::atomic_int and std::atomic_uint are 32 bits wide and wrap around.  A
\* value is kept as the signed reading of its 32 bits, so the unsigned
\* 4294967295 of m_busy_depth is kept as -1; 0 and 1 read the same either way.
INT_MAX == 2147483647
INT_MIN == -INT_MAX - 1
Inc32(x) == IF x = INT_MAX THEN INT_MIN ELSE x + 1
Dec32(x) == IF x = INT_MIN THEN INT_MAX ELSE x - 1
\* x - m for 0 < m < 2^31.
Sub32(x, m) == IF x < INT_MIN + m THEN (((x + INT_MAX) - m) + 1) + INT_MAX + 1 ELSE x - m

\* ------------------------------------------------------------ frames
Depth(t) == Len(stack[t])
Idle(t) == stack[t] = <<>>
Top(t) == stack[t][Len(stack[t])]
At(t, p) == ~crashed /\ ~Idle(t) /\ Top(t).pc = p
SetTop(t, f) == [stack EXCEPT ![t] = [@ EXCEPT ![Len(@)] = f]]
PushFrame(t, f) == [stack EXCEPT ![t] = Append(@, f)]
PopFrame(t) == [stack EXCEPT ![t] = SubSeq(@, 1, Len(@) - 1)]

\* ------------------------------------------------------------ the atomics' results
\* A set_busy() that also returns true when one caller is inside already.
set_busy_second(prev) == prev <= 1

\* A set_busy() that reports the depth after the increment as "not busy before".
set_busy_new_depth(prev) == prev + 1 > 0

\* BusyInterface::set_busy: true iff the depth was 0.
set_busy(prev) == prev = 0

\* An unset_busy() that compares the depth before the decrement with 0.
unset_busy_zero(prev) == prev = 0

\* BusyInterface::unset_busy: true iff the depth was 1.
unset_busy(prev) == prev = 1

\* A start_handling() that lets the walker pass over a request that another
\* thread is handling.
start_handling_exclusive(handle_count) ==
  IF handle_count < 0 THEN (IF handle_count = -s_cancel_marker THEN -1 ELSE 1)
  ELSE IF handle_count > 0 THEN 1 ELSE 0

\* A start_handling() that never tells the walker to reap.
start_handling_never_reap(handle_count) ==
  IF handle_count < 0 THEN 1 ELSE 0

\* A start_handling() that tells the walker to reap every canceled request,
\* whether or not threads are still handling it.
start_handling_reap_canceled(handle_count) ==
  IF handle_count < 0 THEN -1 ELSE 0

\* Request::start_handling: -1 (REAP), 1 (SKIP) or 0 (OK) for the value the
\* compare-exchange loop last saw.
start_handling(handle_count) ==
  IF handle_count < 0
  THEN (IF handle_count = -s_cancel_marker THEN -1 ELSE 1)
  ELSE 0

\* A start_handling() whose compare-exchange stores the value it read.
start_handling_count_same(handle_count) == handle_count

\* Request::start_handling: the value it leaves in m_handle_count.
start_handling_count(handle_count) ==
  IF handle_count < 0 THEN handle_count ELSE Inc32(handle_count)

\* Request::stop_handling: was this the last handler of a canceled request?
stop_handling_last(prev) == prev = 1 - s_cancel_marker

\* A cancel() that waits whenever the request was not canceled before.
cancel_waits_always(prev) == prev >= 0

\* Request::cancel: are there still threads handling this request?
cancel_waits(prev) == prev > 0

\* A wait predicate that does not count one handler, the caller.
cancel_pred_but_one(handle_count) ==
  handle_count = -s_cancel_marker \/ handle_count = 1 - s_cancel_marker

\* A wait predicate that only asks whether the request was canceled.
cancel_pred_canceled(handle_count) == handle_count < 0

\* Request::cancel: the predicate of m_cancel_cv.wait.
cancel_pred(handle_count) == handle_count = -s_cancel_marker

\* ------------------------------------------------------------ the request list
RECURSIVE ChainFrom(_, _)
ChainFrom(r, n) ==
  IF r = NULL \/ n = 0 THEN <<>> ELSE <<r>> \o ChainFrom(m_next[r], n - 1)

\* The nodes reachable from the server's head, in list order.
ListOf(s) == ChainFrom(m_request_list[s], Len(RequestSeq) + 1)
Linked(s) == {ListOf(s)[i] : i \in 1..Len(ListOf(s))}

\* *next of the walker: next is &m_request_list (HEAD) or &node->m_next.
Deref(next, s) == IF next = HEAD THEN m_request_list[s] ELSE m_next[next]

\* ------------------------------------------------------------ history helpers
\* "calls" records handled and delivered; "expect" records expected,
\* detached_by and, in the frame of a trigger, the nodes registered on its server
\* (reg) and the nodes detached by one-shot triggers (gone) when it started;
\* "log" records the order of the OK start_handling() calls and of the
\* callback invocations; "order" numbers the QueuedEvents of a busy interface in the
\* order of their creation and marks the ones put back by the drain loop.
Call(bag, r, d) == IF "calls" \in track THEN bag (+) SetToBag({<<r, d>>}) ELSE bag
Log(entry) == IF "log" \in track THEN Append(log, entry) ELSE log
Count(bag, r, d) == CopiesIn(<<r, d>>, bag)

\* Where handle() returns to in Server::trigger.
AfterHandle(f) == IF one_shot(f.srv) THEN "o_next" ELSE "t_relock"

\* ------------------------------------------------------------ Server::trigger
\* A thread calls server.trigger(data); data names the call.
Trigger(t, s) ==
  /\ ~crashed /\ Idle(t)
  /\ ntrig[t] < MaxTriggers
  /\ ntrig' = [ntrig EXCEPT ![t] = @ + 1]
  /\ stack' = PushFrame(t, [NoFrame EXCEPT
                  !.pc = IF one_shot(s) THEN "o_detach" ELSE "t_lock",
                  !.srv = s, !.data = <<t, ntrig[t] + 1>>,
                  !.reg = IF "expect" \in track THEN Linked(s) ELSE {},
                  !.gone = IF "expect" \in track
                           THEN {r \in Requests : detached_by[r] # NoData} ELSE {}])
  /\ UNCHANGED <<m_handle_count, reqVars, m_request, cancelVars, listVars, busyVars,
                 crashed, histVars>>

\* m_callback of a repeated-mode request, while it executes, calls trigger() on
\* the server of its request (at most MaxTriggers + 1 trigger() calls per
\* thread).
Retrigger(t) ==
  /\ ~crashed /\ ~Idle(t)
  /\ Top(t).pc \in {"cb", "rh"}
  /\ ~one_shot(Top(t).srv)
  /\ ntrig[t] < MaxTriggers + 1
  /\ ntrig' = [ntrig EXCEPT ![t] = @ + 1]
  /\ stack' = PushFrame(t, [NoFrame EXCEPT
                  !.pc = "t_lock", !.srv = Top(t).srv, !.data = <<t, ntrig[t] + 1>>,
                  !.reg = IF "expect" \in track THEN Linked(Top(t).srv) ELSE {},
                  !.gone = IF "expect" \in track
                           THEN {r \in Requests : detached_by[r] # NoData} ELSE {}])
  /\ UNCHANGED <<m_handle_count, reqVars, m_request, cancelVars, listVars, busyVars,
                 crashed, histVars>>

\* Repeated mode: next = &m_request_list; lock the list mutex.
TriggerLock(t) ==
  /\ At(t, "t_lock")
  /\ LET f == Top(t) IN
     /\ m_request_list_mutex[f.srv] = NoThread
     /\ m_request_list_mutex' = [m_request_list_mutex EXCEPT ![f.srv] = t]
     /\ stack' = SetTop(t, [f EXCEPT !.pc = "t_scan", !.next = HEAD, !.reg = {}])
     /\ expected' = expected \cup
          {<<r, f.data>> : r \in {q \in f.reg : m_handle_count[q] >= 0}}
  /\ UNCHANGED <<m_handle_count, reqVars, m_request, cancelVars, m_request_list,
                 busyVars, ntrig, crashed, handled, delivered, detached_by, log, track>>

\* A lock.unlock() that leaves the mutex with its owner.
unlock_skipped(owner) == owner

\* std::unique_lock::unlock: the mutex has no owner.
unlock(owner) == NoThread

\* A delink that stores the node itself: the node stays in the list.
delink_kept(request) == request

\* Server::delink: what it stores in *next, next->m_next.
delink(request) == m_next[request]

\* One round of the inner while loop, under the list mutex, after
\* start_handling() on request = *next returned state: REAP delinks and frees
\* the node, SKIP steps over it, OK leaves the loop and the mutex is unlocked
\* for handle().  f is the walker's frame.  (The unlock only releases: done in
\* the same step as the start_handling() before it, it hides no interleaving.)
TriggerApply(t, f, request, state) ==
  /\ IF state = -1
     THEN \* delink(*next); m_request_memory_pool.free(request)
          /\ IF f.next = HEAD
             THEN /\ m_request_list' = [m_request_list EXCEPT ![f.srv] = delink(request)]
                  /\ m_next' = m_next
             ELSE /\ m_next' = [m_next EXCEPT ![f.next] = delink(request)]
                  /\ m_request_list' = m_request_list
          /\ alloc' = [alloc EXCEPT ![request] = "freed"]
          /\ stack' = SetTop(t, f)
          /\ UNCHANGED m_request_list_mutex
     ELSE /\ UNCHANGED <<m_request_list, m_next, alloc>>
          /\ IF state = 1
             THEN /\ stack' = SetTop(t, [f EXCEPT !.next = request])
                  /\ UNCHANGED m_request_list_mutex
             ELSE /\ stack' = SetTop(t, [f EXCEPT !.pc = "handle", !.request = request,
                                                  !.next = NULL])
                  /\ m_request_list_mutex' =
                       [m_request_list_mutex EXCEPT ![f.srv] = unlock(t)]
  /\ log' = IF state = 0 THEN Log(<<"start", request, f.data>>) ELSE log
  /\ UNCHANGED <<m_busy_interface, server_of, m_request, cancelVars,
                 busyVars, ntrig, crashed, handled, delivered, expected, detached_by,
                 track>>

\* One round of the inner while loop with start_handling() as one atomic step
\* (its compare-exchange loop is taken apart in StartHandlingLoad and
\* StartHandlingCas).
TriggerScan(t) ==
  /\ At(t, "t_scan")
  /\ LET f == Top(t)
         request == Deref(f.next, f.srv)
     IN
     /\ request # NULL
     /\ m_handle_count' = [m_handle_count EXCEPT ![request] = start_handling_count(@)]
     /\ TriggerApply(t, f, request, start_handling(m_handle_count[request]))

\* A compare-exchange that stores without comparing.
compare_exchange_blind(value, handle_count) == TRUE

\* m_handle_count.compare_exchange_weak(handle_count, handle_count + 1): does
\* it store?  (A spurious failure reloads the same value and changes nothing.)
compare_exchange(value, handle_count) == value = handle_count

\* start_handling(), first statement: int handle_count = m_handle_count.
StartHandlingLoad(t) ==
  /\ At(t, "t_scan")
  /\ LET f == Top(t)
         request == Deref(f.next, f.srv)
     IN
     /\ request # NULL
     /\ stack' = SetTop(t, [f EXCEPT !.pc = "t_cas", !.handle_count = m_handle_count[request]])
  /\ UNCHANGED <<m_handle_count, reqVars, m_request, cancelVars, listVars, busyVars,
                 ntrig, crashed, histVars>>

\* start_handling(), one round of the do-while: return for a negative
\* handle_count; else the compare-exchange, which stores handle_count + 1 and
\* start_handling() returns 0, or fails, reloads handle_count and loops.  On
\* return the walker acts as in TriggerScan.
StartHandlingCas(t) ==
  /\ At(t, "t_cas")
  /\ LET f == Top(t)
         request == Deref(f.next, f.srv)
         back == [f EXCEPT !.pc = "t_scan", !.handle_count = 0]
     IN
     IF f.handle_count < 0
     THEN /\ m_handle_count' = m_handle_count
          /\ TriggerApply(t, back, request,
                          IF f.handle_count = -s_cancel_marker THEN -1 ELSE 1)
     ELSE IF compare_exchange(m_handle_count[request], f.handle_count)
     THEN /\ m_handle_count' = [m_handle_count EXCEPT ![request] = Inc32(f.handle_count)]
          /\ TriggerApply(t, back, request, 0)
     ELSE /\ stack' = SetTop(t, [f EXCEPT !.handle_count = m_handle_count[request]])
          /\ UNCHANGED <<m_handle_count, reqVars, m_request, cancelVars, listVars,
                         busyVars, ntrig, crashed, histVars>>

\* The end of the list: break, the unique_lock unlocks, trigger() returns.
TriggerBreak(t) ==
  /\ At(t, "t_scan")
  /\ LET f == Top(t) IN
     /\ Deref(f.next, f.srv) = NULL
     /\ m_request_list_mutex' = [m_request_list_mutex EXCEPT ![f.srv] = NoThread]
  /\ stack' = PopFrame(t)
  /\ UNCHANGED <<m_handle_count, reqVars, m_request, cancelVars, m_request_list,
                 busyVars, ntrig, crashed, histVars>>

\* A stop_handling() whose fetch_sub leaves the word as it was.
stop_handling_count_same(prev) == prev

\* Request::stop_handling: the value its fetch_sub(1) leaves in m_handle_count.
stop_handling_count(prev) == Dec32(prev)

\* lock.lock() after request->handle(data), then request->stop_handling(): the
\* fetch_sub; then next = &request->m_next, unless this was the last handler of
\* a canceled request.  (The lock only acquires: done in the same step as the
\* fetch_sub after it, it hides no interleaving.)
StopHandling(t) ==
  /\ At(t, "t_relock")
  /\ LET f == Top(t)
         prev == m_handle_count[f.request]
     IN
     /\ m_request_list_mutex[f.srv] = NoThread
     /\ m_request_list_mutex' = [m_request_list_mutex EXCEPT ![f.srv] = t]
     /\ m_handle_count' = [m_handle_count EXCEPT ![f.request] = stop_handling_count(prev)]
     /\ IF stop_handling_last(prev)
        THEN stack' = SetTop(t, [f EXCEPT !.pc = "t_sync"])
        ELSE stack' = SetTop(t, [f EXCEPT !.pc = "t_scan", !.next = f.request,
                                          !.request = NULL])
  /\ UNCHANGED <<reqVars, m_request, cancelVars, m_request_list, busyVars, ntrig,
                 crashed, histVars>>

\* stop_handling(): m_cancel_mutex.lock(); m_cancel_mutex.unlock().
StopHandlingSync(t) ==
  /\ At(t, "t_sync")
  /\ LET f == Top(t) IN
     /\ m_cancel_mutex[f.request] = NoThread
     /\ stack' = SetTop(t, [f EXCEPT !.pc = "t_notify"])
  /\ UNCHANGED <<m_handle_count, reqVars, m_request, cancelVars, listVars, busyVars,
                 ntrig, crashed, histVars>>

\* stop_handling(): m_cancel_cv.notify_one(); then next = &request->m_next.
StopHandlingNotify(t) ==
  /\ At(t, "t_notify")
  /\ LET f == Top(t) IN
     /\ cv_waiting' = [cv_waiting EXCEPT ![f.request] =
                         IF @ = "parked" THEN "notified" ELSE @]
     /\ stack' = SetTop(t, [f EXCEPT !.pc = "t_scan", !.next = f.request,
                                     !.request = NULL])
  /\ UNCHANGED <<m_handle_count, reqVars, m_request, m_cancel_mutex, listVars,
                 busyVars, ntrig, crashed, histVars>>

\* ------------------------------------------------------------ Server::trigger, one-shot
\* A detach that leaves the list where it is.
detached_list_kept(head) == head

\* What the detach leaves in m_request_list: nullptr.
detached_list(head) == NULL

\* head = m_request_list; m_request_list = nullptr, under the list mutex.
OneShotDetach(t) ==
  /\ At(t, "o_detach")
  /\ LET f == Top(t) IN
     /\ m_request_list_mutex[f.srv] = NoThread
     /\ m_request_list' = [m_request_list EXCEPT ![f.srv] = detached_list(@)]
     /\ stack' = SetTop(t, [f EXCEPT !.pc = "o_loop", !.head = m_request_list[f.srv],
                                     !.request = m_request_list[f.srv], !.reg = {}])
     /\ detached_by' = [r \in Requests |->
                          IF "expect" \in track /\ r \in Linked(f.srv)
                          THEN f.data ELSE detached_by[r]]
  /\ UNCHANGED <<m_handle_count, reqVars, m_request, cancelVars, m_request_list_mutex,
                 busyVars, ntrig, crashed, handled, delivered, expected, log, track>>

\* while (request): call request->handle(data); after the last node go on to the
\* loop that frees the nodes.
OneShotLoop(t) ==
  /\ At(t, "o_loop")
  /\ LET f == Top(t) IN
     stack' = SetTop(t, IF f.request # NULL
                        THEN [f EXCEPT !.pc = "handle"]
                        ELSE [f EXCEPT !.pc = "o_free", !.request = f.head])
  /\ UNCHANGED <<m_handle_count, reqVars, m_request, cancelVars, listVars, busyVars,
                 ntrig, crashed, histVars>>

\* request = request->m_next.
OneShotNext(t) ==
  /\ At(t, "o_next")
  /\ LET f == Top(t) IN
     stack' = SetTop(t, [f EXCEPT !.pc = "o_loop", !.request = m_next[f.request]])
  /\ UNCHANGED <<m_handle_count, reqVars, m_request, cancelVars, listVars, busyVars,
                 ntrig, crashed, histVars>>

\* One round of the second loop: next = request->m_next; free(request).
OneShotFree(t) ==
  /\ At(t, "o_free")
  /\ LET f == Top(t) IN
     /\ f.request # NULL
     /\ alloc' = [alloc EXCEPT ![f.request] = "freed"]
     /\ stack' = SetTop(t, [f EXCEPT !.request = m_next[f.request]])
  /\ UNCHANGED <<m_handle_count, m_next, m_busy_interface, server_of, m_request,
                 cancelVars, listVars, busyVars, ntrig, crashed, histVars>>

\* The second loop is done: trigger() returns.
OneShotReturn(t) ==
  /\ At(t, "o_free")
  /\ Top(t).request = NULL
  /\ stack' = PopFrame(t)
  /\ UNCHANGED <<m_handle_count, reqVars, m_request, cancelVars, listVars, busyVars,
                 ntrig, crashed, histVars>>

\* ------------------------------------------------------------ Request::handle
\* A request without busy interface: m_callback(data) is entered.
Handle(t) ==
  /\ At(t, "handle")
  /\ LET f == Top(t) IN
     /\ m_busy_interface[f.request] = NULL
     /\ stack' = SetTop(t, [f EXCEPT !.pc = "cb"])
     /\ handled' = Call(handled, f.request, f.data)
     /\ delivered' = Call(delivered, f.request, f.data)
     /\ log' = Log(<<"call", f.request, f.data>>)
  /\ UNCHANGED <<m_handle_count, reqVars, m_request, cancelVars, listVars, busyVars,
                 ntrig, crashed, expected, detached_by, track>>

\* m_callback(data) returns: handle() of a plain request returns, handle() of a
\* request with busy interface goes on to unset_busy().
CallbackReturn(t) ==
  /\ At(t, "cb")
  /\ LET f == Top(t) IN
     stack' = SetTop(t, [f EXCEPT !.pc = IF m_busy_interface[f.request] = NULL
                                         THEN AfterHandle(f) ELSE "h_unset"])
  /\ UNCHANGED <<m_handle_count, reqVars, m_request, cancelVars, listVars, busyVars,
                 ntrig, crashed, histVars>>

\* ------------------------------------------------------------ RequestWithBI::handle
\* if (!m_busy_interface->set_busy()) queue the event, else m_callback(data).
HandleBI(t) ==
  /\ At(t, "handle")
  /\ LET f == Top(t)
         b == m_busy_interface[f.request]
     IN
     /\ b # NULL
     /\ m_busy_depth' = [m_busy_depth EXCEPT ![b] = Inc32(@)]
     /\ handled' = Call(handled, f.request, f.data)
     /\ IF set_busy(m_busy_depth[b])
        THEN /\ stack' = SetTop(t, [f EXCEPT !.pc = "cb"])
             /\ delivered' = Call(delivered, f.request, f.data)
             /\ log' = Log(<<"call", f.request, f.data>>)
        ELSE /\ stack' = SetTop(t, [f EXCEPT !.pc = "h_push"])
             /\ delivered' = delivered
             /\ log' = log
  /\ UNCHANGED <<m_handle_count, reqVars, m_request, cancelVars, listVars, m_events,
                 pushed, manual, ntrig, crashed, expected, detached_by, track>>

\* BusyInterface::push: m_events.push_back under the events mutex.
push(events, queued_event) == Append(events, queued_event)

\* new QueuedEvent(this, data); m_busy_interface->push(new_queued_event).
HandlePush(t) ==
  /\ At(t, "h_push")
  /\ LET f == Top(t)
         b == m_busy_interface[f.request]
         new_queued_event == [m_request |-> f.request, m_data |-> f.data,
                              seq |-> IF "order" \in track THEN pushed[b] + 1 ELSE 0,
                              back |-> FALSE]
     IN
     /\ m_events' = [m_events EXCEPT ![b] = push(@, new_queued_event)]
     /\ pushed' = [pushed EXCEPT ![b] = IF "order" \in track THEN @ + 1 ELSE @]
     /\ stack' = SetTop(t, [f EXCEPT !.pc = "h_unset"])
  /\ UNCHANGED <<m_handle_count, reqVars, m_request, cancelVars, listVars,
                 m_busy_depth, manual, ntrig, crashed, histVars>>

\* while (m_busy_interface->unset_busy()): false leaves handle().
HandleUnsetBusy(t) ==
  /\ At(t, "h_unset")
  /\ LET f == Top(t)
         b == m_busy_interface[f.request]
     IN
     /\ m_busy_depth' = [m_busy_depth EXCEPT ![b] = Dec32(@)]
     /\ stack' = SetTop(t, [f EXCEPT !.pc = IF unset_busy(m_busy_depth[b])
                                            THEN "h_pop" ELSE AfterHandle(f)])
  /\ UNCHANGED <<m_handle_count, reqVars, m_request, cancelVars, listVars, m_events,
                 pushed, manual, ntrig, crashed, histVars>>

\* A pop() that returns the front and leaves it in the queue.
pop_front_kept(events) == events

\* BusyInterface::pop: m_events.pop_front(), after front() was taken.
pop_front(events) == Tail(events)

\* queued_event = m_busy_interface->pop(); none left: break and leave handle().
HandlePop(t) ==
  /\ At(t, "h_pop")
  /\ LET f == Top(t)
         b == m_busy_interface[f.request]
     IN
     IF m_events[b] = <<>>
     THEN /\ stack' = SetTop(t, [f EXCEPT !.pc = AfterHandle(f)])
          /\ m_events' = m_events
     ELSE /\ stack' = SetTop(t, [f EXCEPT !.pc = "h_again", !.qe = Head(m_events[b])])
          /\ m_events' = [m_events EXCEPT ![b] = pop_front(@)]
  /\ UNCHANGED <<m_handle_count, reqVars, m_request, cancelVars, listVars,
                 m_busy_depth, pushed, manual, ntrig, crashed, histVars>>

\* if (m_busy_interface->set_busy()) queued_event->rehandle() is entered: it
\* calls m_request->m_callback(m_data); else the event goes back to the queue.
HandleSetBusyAgain(t) ==
  /\ At(t, "h_again")
  /\ LET f == Top(t)
         b == m_busy_interface[f.request]
     IN
     /\ m_busy_depth' = [m_busy_depth EXCEPT ![b] = Inc32(@)]
     /\ IF set_busy(m_busy_depth[b])
        THEN /\ stack' = SetTop(t, [f EXCEPT !.pc = "rh"])
             /\ delivered' = Call(delivered, f.qe.m_request, f.qe.m_data)
             /\ log' = Log(<<"call", f.qe.m_request, f.qe.m_data>>)
        ELSE /\ stack' = SetTop(t, [f EXCEPT !.pc = "h_back"])
             /\ delivered' = delivered
             /\ log' = log
  /\ UNCHANGED <<m_handle_count, reqVars, m_request, cancelVars, listVars, m_events,
                 pushed, manual, ntrig, crashed, handled, expected, detached_by, track>>

\* rehandle() returns; delete queued_event; back to unset_busy().
RehandleReturn(t) ==
  /\ At(t, "rh")
  /\ stack' = SetTop(t, [Top(t) EXCEPT !.pc = "h_unset", !.qe = NoEvent])
  /\ UNCHANGED <<m_handle_count, reqVars, m_request, cancelVars, listVars, busyVars,
                 ntrig, crashed, histVars>>

\* m_busy_interface->push(queued_event) of the event that could not be
\* rehandled; back to unset_busy().
HandlePushBack(t) ==
  /\ At(t, "h_back")
  /\ LET f == Top(t)
         b == m_busy_interface[f.request]
     IN
     /\ m_events' = [m_events EXCEPT ![b] = push(@, [f.qe EXCEPT !.back = "order" \in track])]
     /\ stack' = SetTop(t, [f EXCEPT !.pc = "h_unset", !.qe = NoEvent])
  /\ UNCHANGED <<m_handle_count, reqVars, m_request, cancelVars, listVars,
                 m_busy_depth, pushed, manual, ntrig, crashed, histVars>>

\* ------------------------------------------------------------ cancel
\* RequestHandle::cancel is called on the handle of node r: ASSERT(m_request),
\* then Request::cancel: m_handle_count.fetch_sub(s_cancel_marker) > 0 ?
Cancel(t, r) ==
  /\ ~crashed /\ Idle(t)
  /\ m_request[r] # NULL
  /\ LET request == m_request[r]
         prev == m_handle_count[request]
     IN
     /\ m_handle_count' = [m_handle_count EXCEPT ![request] = Sub32(prev, s_cancel_marker)]
     /\ stack' = PushFrame(t, [NoFrame EXCEPT
                     !.pc = IF cancel_waits(prev) THEN "c_lock" ELSE "c_clear",
                     !.request = request])
  /\ UNCHANGED <<reqVars, m_request, cancelVars, listVars, busyVars, ntrig, crashed,
                 histVars>>

\* The callback of repeated-mode request r, while it executes on thread t,
\* calls cancel() on the handle of r: RequestHandle::cancel, then
\* Request::cancel's fetch_sub, as in Cancel.
CancelFromCallback(t, r) ==
  /\ ~crashed /\ ~Idle(t)
  /\ Top(t).pc = "cb" /\ Top(t).request = r
  /\ ~one_shot(Top(t).srv)
  /\ m_request[r] # NULL
  /\ LET request == m_request[r]
         prev == m_handle_count[request]
     IN
     /\ m_handle_count' = [m_handle_count EXCEPT ![request] = Sub32(prev, s_cancel_marker)]
     /\ stack' = PushFrame(t, [NoFrame EXCEPT
                     !.pc = IF cancel_waits(prev) THEN "c_lock" ELSE "c_clear",
                     !.request = request])
  /\ UNCHANGED <<reqVars, m_request, cancelVars, listVars, busyVars, ntrig, crashed,
                 histVars>>

\* std::unique_lock<std::mutex> lock(m_cancel_mutex).
CancelLock(t) ==
  /\ At(t, "c_lock")
  /\ LET f == Top(t) IN
     /\ m_cancel_mutex[f.request] = NoThread
     /\ m_cancel_mutex' = [m_cancel_mutex EXCEPT ![f.request] = t]
     /\ stack' = SetTop(t, [f EXCEPT !.pc = "c_check"])
  /\ UNCHANGED <<m_handle_count, reqVars, m_request, cv_waiting, listVars, busyVars,
                 ntrig, crashed, histVars>>

\* m_cancel_cv.wait(lock, pred), with the mutex held: the predicate holds and
\* cancel() leaves (unlocking), or the thread unlocks and parks.
CancelCheck(t) ==
  /\ At(t, "c_check")
  /\ LET f == Top(t) IN
     /\ m_cancel_mutex' = [m_cancel_mutex EXCEPT ![f.request] = NoThread]
     /\ IF cancel_pred(m_handle_count[f.request])
        THEN /\ stack' = SetTop(t, [f EXCEPT !.pc = "c_clear"])
             /\ cv_waiting' = cv_waiting
        ELSE /\ stack' = SetTop(t, [f EXCEPT !.pc = "c_wait"])
             /\ cv_waiting' = [cv_waiting EXCEPT ![f.request] = "parked"]
  /\ UNCHANGED <<m_handle_count, reqVars, m_request, listVars, busyVars, ntrig,
                 crashed, histVars>>

\* The parked thread was notified: it takes the mutex again and rechecks.
CancelWake(t) ==
  /\ At(t, "c_wait")
  /\ LET f == Top(t) IN
     /\ cv_waiting[f.request] = "notified"
     /\ m_cancel_mutex[f.request] = NoThread
     /\ m_cancel_mutex' = [m_cancel_mutex EXCEPT ![f.request] = t]
     /\ cv_waiting' = [cv_waiting EXCEPT ![f.request] = "no"]
     /\ stack' = SetTop(t, [f EXCEPT !.pc = "c_check"])
  /\ UNCHANGED <<m_handle_count, reqVars, m_request, listVars, busyVars, ntrig,
                 crashed, histVars>>

\* A spurious wakeup of std::condition_variable::wait.
CancelSpuriousWake(t) ==
  /\ At(t, "c_wait")
  /\ LET f == Top(t) IN
     /\ cv_waiting[f.request] = "parked"
     /\ m_cancel_mutex[f.request] = NoThread
     /\ m_cancel_mutex' = [m_cancel_mutex EXCEPT ![f.request] = t]
     /\ cv_waiting' = [cv_waiting EXCEPT ![f.request] = "no"]
     /\ stack' = SetTop(t, [f EXCEPT !.pc = "c_check"])
  /\ UNCHANGED <<m_handle_count, reqVars, m_request, listVars, busyVars, ntrig,
                 crashed, histVars>>

\* A RequestHandle::cancel that leaves the handle's reference in place.
cancel_keeps(request) == request

\* RequestHandle::cancel: what it leaves in the handle, m_request = nullptr.
cancel_clears(request) == NULL

\* RequestHandle::cancel: m_request = nullptr; cancel() returns.
CancelReturn(t) ==
  /\ At(t, "c_clear")
  /\ m_request' = [m_request EXCEPT ![Top(t).request] = cancel_clears(@)]
  /\ stack' = PopFrame(t)
  /\ UNCHANGED <<m_handle_count, reqVars, cancelVars, listVars, busyVars, ntrig,
                 crashed, histVars>>

\* RequestHandle::cancel is called on a handle that holds no reference: it was
\* cancelled before, or default-constructed, or moved from.  ASSERT(m_request)
\* fails and ends the process (without the assertion the call dereferences the
\* null pointer, which ends the process as well); no request is touched.
CancelAgain(t, r) ==
  /\ ~crashed /\ Idle(t)
  /\ m_request[r] = NULL
  /\ crashed' = TRUE
  /\ UNCHANGED <<m_handle_count, reqVars, m_request, cancelVars, listVars, busyVars,
                 stack, ntrig, histVars>>

\* ------------------------------------------------------------ Server::request
FreshNodes == {i \in 1..Len(RequestSeq) : alloc[RequestSeq[i]] = "pool"}
FreshNode == RequestSeq[CHOOSE i \in FreshNodes : \A j \in FreshNodes : i <= j]

\* A push_front that does not read the current head: the list is cut off.
push_front_cut(head) == NULL

\* Server::push_front: what it stores in new_request->m_next, the current head.
push_front(head) == head

\* new (m_request_memory_pool) Request / RequestWithBI; push_front(request)
\* under the list mutex; the handle returned holds the node.  b is the busy
\* interface passed, NULL for the overloads without one.
Request(t, s, b) ==
  /\ ~crashed /\ Idle(t)
  /\ FreshNodes # {}
  /\ m_request_list_mutex[s] = NoThread
  /\ LET request == FreshNode IN
     /\ alloc' = [alloc EXCEPT ![request] = "live"]
     /\ m_handle_count' = [m_handle_count EXCEPT ![request] = 0]
     /\ m_busy_interface' = [m_busy_interface EXCEPT ![request] = b]
     /\ server_of' = [server_of EXCEPT ![request] = s]
     /\ m_next' = [m_next EXCEPT ![request] = push_front(m_request_list[s])]
     /\ m_request_list' = [m_request_list EXCEPT ![s] = request]
     /\ m_request' = [m_request EXCEPT ![request] = request]
  /\ UNCHANGED <<cancelVars, m_request_list_mutex, busyVars, stack, ntrig, crashed,
                 histVars>>

\* ------------------------------------------------------------ BusyInterface, by the client
\* The client calls busy_interface.set_busy() itself.
SetBusy(t, b) ==
  /\ ~crashed /\ Idle(t)
  /\ manual[b] < MaxManual
  /\ m_busy_depth' = [m_busy_depth EXCEPT ![b] = Inc32(@)]
  /\ manual' = [manual EXCEPT ![b] = @ + 1]
  /\ UNCHANGED <<m_handle_count, reqVars, m_request, cancelVars, listVars, m_events,
                 pushed, stack, ntrig, crashed, histVars>>

\* The client calls busy_interface.unset_busy() itself: the fetch_sub and
\* nothing else.
UnsetBusy(t, b) ==
  /\ ~crashed /\ Idle(t)
  /\ manual[b] > 0
  /\ m_busy_depth' = [m_busy_depth EXCEPT ![b] = Dec32(@)]
  /\ manual' = [manual EXCEPT ![b] = @ - 1]
  /\ UNCHANGED <<m_handle_count, reqVars, m_request, cancelVars, listVars, m_events,
                 pushed, stack, ntrig, crashed, histVars>>

\* The client calls busy_interface.unset_busy() while the depth is 0: the
\* fetch_sub and nothing else; the unsigned depth wraps around.
UnsetBusyUnbalanced(t, b) ==
  /\ ~crashed /\ Idle(t)
  /\ m_busy_depth[b] = 0
  /\ m_busy_depth' = [m_busy_depth EXCEPT ![b] = Dec32(@)]
  /\ UNCHANGED <<m_handle_count, reqVars, m_request, cancelVars, listVars, m_events,
                 pushed, manual, stack, ntrig, crashed, histVars>>

\* ------------------------------------------------------------ use after free
\* The node the thread's current step dereferences outside the list mutex:
\* the request of a cancel() in progress, the m_request of the QueuedEvent
\* being rehandled.
Dereferenced(t) ==
  IF Idle(t) THEN NULL
  ELSE IF Top(t).pc \in {"c_lock", "c_check", "c_wait"} THEN Top(t).request
  ELSE IF Top(t).pc = "rh" THEN Top(t).qe.m_request
  ELSE NULL

\* Dereferencing a node that was returned to the pool is undefined: the step
\* may act on the stale node (the actions above) or end the process.
UseAfterFree(t) ==
  /\ ~crashed
  /\ Dereferenced(t) # NULL
  /\ alloc[Dereferenced(t)] = "freed"
  /\ crashed' = TRUE
  /\ UNCHANGED <<m_handle_count, reqVars, m_request, cancelVars, listVars, busyVars,
                 stack, ntrig, histVars>>

\* RequestHandle::cancel is called on a handle whose node was returned to the
\* pool: m_request->cancel() dereferences the freed node, which is undefined:
\* the fetch_sub may act on the stale node (Cancel above) or the process ends.
CancelFreed(t, r) ==
  /\ ~crashed /\ Idle(t)
  /\ m_request[r] # NULL
  /\ alloc[m_request[r]] = "freed"
  /\ crashed' = TRUE
  /\ UNCHANGED <<m_handle_count, reqVars, m_request, cancelVars, listVars, busyVars,
                 stack, ntrig, histVars>>

\* ------------------------------------------------------------ initial states
\* The state after the servers and busy interfaces were constructed and
\* request() was called for regs[1], regs[2], ... in this order; regs[i] is
\* <<server, busy interface or NULL>> and gets node RequestSeq[i].  histories
\* are the histories to record and counts the state words: not 0 for a request
\* with handlers in flight that are no frames of Threads (a callback that
\* triggers its own server over and over holds its request once per nesting).
Registered(regs, r) == \E i \in 1..Len(regs) : RequestSeq[i] = r
IndexOf(r) == CHOOSE i \in 1..Len(RequestSeq) : RequestSeq[i] = r
Older(regs, i) == {j \in 1..(i - 1) : regs[j][1] = regs[i][1]}
Newest(S) == CHOOSE i \in S : \A j \in S : j <= i

InitWithCount(regs, histories, counts) ==
  /\ track = histories
  /\ m_handle_count = counts
  /\ m_next = [r \in Requests |->
        IF Registered(regs, r) /\ Older(regs, IndexOf(r)) # {}
        THEN RequestSeq[Newest(Older(regs, IndexOf(r)))] ELSE NULL]
  /\ m_busy_interface = [r \in Requests |->
        IF Registered(regs, r) THEN regs[IndexOf(r)][2] ELSE NULL]
  /\ server_of = [r \in Requests |->
        IF Registered(regs, r) THEN regs[IndexOf(r)][1] ELSE NULL]
  /\ alloc = [r \in Requests |-> IF Registered(regs, r) THEN "live" ELSE "pool"]
  /\ m_request = [r \in Requests |-> IF Registered(regs, r) THEN r ELSE NULL]
  /\ m_cancel_mutex = [r \in Requests |-> NoThread]
  /\ cv_waiting = [r \in Requests |-> "no"]
  /\ m_request_list = [s \in Servers |->
        LET on == {i \in 1..Len(regs) : regs[i][1] = s} IN
        IF on = {} THEN NULL ELSE RequestSeq[Newest(on)]]
  /\ m_request_list_mutex = [s \in Servers |-> NoThread]
  /\ m_busy_depth = [b \in BusyInterfaces |-> 0]
  /\ m_events = [b \in BusyInterfaces |-> <<>>]
  /\ stack = [t \in Threads |-> <<>>]
  /\ ntrig = [t \in Threads |-> 0]
  /\ crashed = FALSE
  /\ handled = EmptyBag
  /\ delivered = EmptyBag
  /\ expected = {}
  /\ detached_by = [r \in Requests |-> NoData]
  /\ log = <<>>
  /\ pushed = [b \in BusyInterfaces |-> 0]
  /\ manual = [b \in BusyInterfaces |-> 0]

\* The state right after the constructors: every m_handle_count is 0.
InitWith(regs, histories) ==
  InitWithCount(regs, histories, [r \in Requests |-> 0])

\* ------------------------------------------------------------ specifications
\* The steps inside trigger() in repeated mode, handle() excluded, when no
\* request is canceled: stop_handling() is its fetch_sub only.
WalkStep(t) ==
  \/ TriggerLock(t) \/ TriggerScan(t) \/ TriggerBreak(t) \/ StopHandling(t)

\* The steps inside trigger() in repeated mode, handle() excluded.
RepeatedStep(t) ==
  \/ WalkStep(t) \/ StopHandlingSync(t) \/ StopHandlingNotify(t)

BusyStep(t) ==
  \/ HandleBI(t) \/ HandlePush(t) \/ HandleUnsetBusy(t) \/ HandlePop(t)
  \/ HandleSetBusyAgain(t) \/ RehandleReturn(t) \/ HandlePushBack(t)

CancelStep(t) ==
  \/ CancelLock(t) \/ CancelCheck(t) \/ CancelWake(t)
  \/ CancelSpuriousWake(t) \/ CancelReturn(t)

\* The steps inside trigger() in one-shot mode, handle() excluded.
OneShotStep(t) ==
  \/ OneShotDetach(t) \/ OneShotLoop(t) \/ OneShotNext(t)
  \/ OneShotFree(t) \/ OneShotReturn(t)

\* Spec: two repeated servers whose requests share one busy interface (the
\* set-up of test4.cxx): r1 on s1, r2 on s2, both bound to b1.  Two threads
\* trigger either server and the client cancels the handles.
Init == InitWith(<< <<"s1", "b1">>, <<"s2", "b1">> >>, {})

Next ==
  \/ Trigger("t1", "s1") \/ Trigger("t2", "s2")
  \/ \E t \in Threads : RepeatedStep(t)
  \/ \E t \in Threads : BusyStep(t)
  \/ \E t \in Threads : CallbackReturn(t)
  \/ \E r \in Requests : Cancel(Client, r)
  \/ \E t \in Threads : CancelStep(t)
  \/ \E t \in Threads : UseAfterFree(t)

Spec == Init /\ [][Next]_vars

\* SpecWalk: one repeated server with two requests without busy interface;
\* two threads trigger it and the client cancels the handles.
InitWalk == InitWith(<< <<"s1", NULL>>, <<"s1", NULL>> >>, {})

NextWalk ==
  \/ \E t \in Triggerers : Trigger(t, "s1")
  \/ \E t \in Threads : RepeatedStep(t)
  \/ \E t \in Threads : Handle(t)
  \/ \E t \in Threads : CallbackReturn(t)
  \/ \E r \in Requests : Cancel(Client, r)
  \/ \E t \in Threads : CancelStep(t)
  \/ \E t \in Threads : UseAfterFree(t)

SpecWalk == InitWalk /\ [][NextWalk]_vars

\* SpecDeliver: one repeated server with r1 (no busy interface) and r2 (bound to
\* b1) registered before any trigger.  t1 triggers it MaxTriggers times and t2
\* once; meanwhile the client registers r3 and cancels the handle of r2.
\* The calls of handle() and of the callbacks are recorded, and for every
\* trigger the requests it is expected to deliver to.
InitDeliver == InitWith(<< <<"s1", NULL>>, <<"s1", "b1">> >>, {"calls", "expect"})

NextDeliver ==
  \/ Trigger("t1", "s1")
  \/ (ntrig["t2"] = 0 /\ Trigger("t2", "s1"))
  \/ \E t \in Threads : RepeatedStep(t)
  \/ \E t \in Threads : Handle(t)
  \/ \E t \in Threads : BusyStep(t)
  \/ \E t \in Threads : CallbackReturn(t)
  \/ Request(Client, "s1", NULL)
  \/ Cancel(Client, "r2")
  \/ \E t \in Threads : CancelStep(t)
  \/ \E t \in Threads : UseAfterFree(t)

SpecDeliver == InitDeliver /\ [][NextDeliver]_vars

\* SpecOneShot: a one-shot server with r1 and r2 registered, both bound to b1;
\* two threads trigger it and the client registers r3 (bound to b1) at any time
\* (test1.cxx registers and triggers, test2.cxx registers again after a
\* trigger).
InitOneShot == InitWith(<< <<"o1", "b1">>, <<"o1", "b1">> >>, {"calls", "expect"})

NextOneShot ==
  \/ \E t \in Triggerers : Trigger(t, "o1")
  \/ \E t \in Threads : OneShotStep(t)
  \/ \E t \in Threads : BusyStep(t)
  \/ \E t \in Threads : CallbackReturn(t)
  \/ Request(Client, "o1", "b1")
  \/ \E t \in Threads : UseAfterFree(t)

SpecOneShot == InitOneShot /\ [][NextOneShot]_vars

\* SpecManual: the client brackets a busy period with set_busy() and
\* unset_busy() on b1 and triggers the server of r1 (bound to b1); t1 triggers
\* the same server (the scenario of test2.cxx, lines 138-163).
InitManual == InitWith(<< <<"s1", "b1">> >>, {"calls"})

NextManual ==
  \/ SetBusy(Client, "b1")
  \/ UnsetBusy(Client, "b1")
  \/ \E t \in {Client, "t1"} : Trigger(t, "s1")
  \/ \E t \in Threads : WalkStep(t)
  \/ \E t \in Threads : BusyStep(t)
  \/ \E t \in Threads : CallbackReturn(t)

SpecManual == InitManual /\ [][NextManual]_vars

\* SpecBusy: the set-up of Spec (test4.cxx) without cancellation: the busy
\* interface is entered only through RequestWithBI::handle.  The calls are
\* recorded and the QueuedEvents are numbered.
InitBusy == InitWith(<< <<"s1", "b1">>, <<"s2", "b1">> >>, {"calls", "order"})

NextBusy ==
  \/ Trigger("t1", "s1") \/ Trigger("t2", "s2")
  \/ \E t \in Threads : WalkStep(t)
  \/ \E t \in Threads : BusyStep(t)
  \/ \E t \in Threads : CallbackReturn(t)

SpecBusy == InitBusy /\ [][NextBusy]_vars

\* SpecOrder: one repeated server with r1 (no busy interface) and r2 (bound to
\* b1); t1 triggers it MaxTriggers times and t2 once.  The order of the OK
\* start_handling() calls and of the callback invocations is recorded.
InitOrder == InitWith(<< <<"s1", NULL>>, <<"s1", "b1">> >>, {"log"})

NextOrder ==
  \/ Trigger("t1", "s1")
  \/ (ntrig["t2"] = 0 /\ Trigger("t2", "s1"))
  \/ \E t \in Threads : WalkStep(t)
  \/ \E t \in Threads : Handle(t)
  \/ \E t \in Threads : BusyStep(t)
  \/ \E t \in Threads : CallbackReturn(t)

SpecOrder == InitOrder /\ [][NextOrder]_vars

\* SpecReentrant: one repeated server with r1 (no busy interface) and r2 (bound
\* to b1); t1 triggers it and the callbacks t1 runs trigger it again from
\* inside; t2 triggers it once.
\* Every thread that is inside a call goes on: weak fairness of its steps (the
\* choice of a callback to trigger again is not forced).
InitReentrant == InitWith(<< <<"s1", NULL>>, <<"s1", "b1">> >>, {})

ReentrantStep(t) ==
  \/ WalkStep(t) \/ Handle(t) \/ BusyStep(t) \/ CallbackReturn(t)

NextReentrant ==
  \/ Trigger("t1", "s1")
  \/ (ntrig["t2"] = 0 /\ Trigger("t2", "s1"))
  \/ Retrigger("t1")
  \/ \E t \in Threads : ReentrantStep(t)

SpecReentrant ==
  /\ InitReentrant /\ [][NextReentrant]_vars
  /\ \A t \in Threads : WF_vars(ReentrantStep(t))

\* SpecHandle: SpecWalk, and the client also calls cancel() on handles that hold
\* no reference.
NextHandle ==
  \/ NextWalk
  \/ \E r \in Requests : CancelAgain(Client, r)

SpecHandle == InitWalk /\ [][NextHandle]_vars

\* SpecUnbalanced: SpecManual, and the client also calls unset_busy() when the
\* depth is 0.
NextUnbalanced ==
  \/ NextManual
  \/ UnsetBusyUnbalanced(Client, "b1")

SpecUnbalanced == InitManual /\ [][NextUnbalanced]_vars

\* SpecWalkFair: SpecWalk under fair scheduling: a thread inside trigger() or
\* inside cancel() goes on when it can.  Spurious wakeups of the condition
\* variable may happen and are not promised.
CancelProgress(t) ==
  \/ CancelLock(t) \/ CancelCheck(t) \/ CancelWake(t) \/ CancelReturn(t)

WalkProgress(t) ==
  \/ RepeatedStep(t) \/ Handle(t) \/ CallbackReturn(t)

SpecWalkFair ==
  /\ InitWalk /\ [][NextWalk]_vars
  /\ \A t \in Threads : WF_vars(WalkProgress(t)) /\ WF_vars(CancelProgress(t))

\* SpecPutBack: one repeated server with r1 and r2, both bound to b1, so that one
\* trigger can queue two events; t1 triggers it once and t2 MaxTriggers times.
\* The QueuedEvents are numbered and the ones put back are marked.
InitPutBack == InitWith(<< <<"s1", "b1">>, <<"s1", "b1">> >>, {"order"})

NextPutBack ==
  \/ (ntrig["t1"] = 0 /\ Trigger("t1", "s1"))
  \/ Trigger("t2", "s1")
  \/ \E t \in Threads : WalkStep(t)
  \/ \E t \in Threads : BusyStep(t)
  \/ \E t \in Threads : CallbackReturn(t)

SpecPutBack == InitPutBack /\ [][NextPutBack]_vars

\* SpecOneShotCancel: a one-shot server with r1 and r2 registered, without busy
\* interface; two threads trigger it and the client cancels the handles at any
\* time (test1.cxx triggers and then cancels every handle).  No
\* start_handling() runs in one-shot mode, so cancel() never waits.
InitOneShotCancel == InitWith(<< <<"o1", NULL>>, <<"o1", NULL>> >>, {})

NextOneShotCancel ==
  \/ \E t \in Triggerers : Trigger(t, "o1")
  \/ \E t \in Threads : OneShotStep(t)
  \/ \E t \in Threads : Handle(t)
  \/ \E t \in Threads : CallbackReturn(t)
  \/ \E r \in Requests : Cancel(Client, r)
  \/ \E r \in Requests : CancelFreed(Client, r)
  \/ CancelReturn(Client)

SpecOneShotCancel == InitOneShotCancel /\ [][NextOneShotCancel]_vars

\* SpecLocks: one repeated server with r1 (no busy interface) and r2 (bound to
\* b1); t1 triggers it MaxTriggers times and t2 once, and the client cancels the
\* handles: callbacks
\* are called from Request::handle, from RequestWithBI::handle and from
\* rehandle, next to walkers and cancellers that take the mutexes.
InitLocks == InitWith(<< <<"s1", NULL>>, <<"s1", "b1">> >>, {})

NextLocks ==
  \/ Trigger("t1", "s1")
  \/ (ntrig["t2"] = 0 /\ Trigger("t2", "s1"))
  \/ \E t \in Threads : RepeatedStep(t)
  \/ \E t \in Threads : Handle(t)
  \/ \E t \in Threads : BusyStep(t)
  \/ \E t \in Threads : CallbackReturn(t)
  \/ \E r \in Requests : Cancel(Client, r)
  \/ \E t \in Threads : CancelStep(t)
  \/ \E t \in Threads : UseAfterFree(t)

SpecLocks == InitLocks /\ [][NextLocks]_vars

\* SpecLife: a repeated server with r1 and a one-shot server with r2, no busy
\* interface.  t1 triggers the repeated server and t2 the one-shot server; the
\* client registers r3 on either server and cancels the handles at any time.
InitLife == InitWith(<< <<"s1", NULL>>, <<"o1", NULL>> >>, {})

NextLife ==
  \/ Trigger("t1", "s1") \/ Trigger("t2", "o1")
  \/ \E t \in Threads : RepeatedStep(t)
  \/ \E t \in Threads : OneShotStep(t)
  \/ \E t \in Threads : Handle(t)
  \/ \E t \in Threads : CallbackReturn(t)
  \/ \E s \in {"s1", "o1"} : Request(Client, s, NULL)
  \/ \E r \in Requests : Cancel(Client, r)
  \/ \E r \in Requests : CancelFreed(Client, r)
  \/ \E t \in Threads : CancelStep(t)
  \/ \E t \in Threads : UseAfterFree(t)

SpecLife == InitLife /\ [][NextLife]_vars

\* SpecWord: SpecWalk, started with no handler of r2 in flight or with
\* s_cancel_marker of them (r2's callback triggers its own server recursively,
\* 0x10000 deep; those frames do not move and are not held in stack).
NestedHandlers == {0, s_cancel_marker}

InitWord ==
  \E n \in NestedHandlers :
    InitWithCount(<< <<"s1", NULL>>, <<"s1", NULL>> >>, {},
                  [r \in Requests |-> IF r = "r2" THEN n ELSE 0])

SpecWord == InitWord /\ [][NextWalk]_vars

\* SpecCount: one repeated server with two requests without busy interface; t1
\* triggers it and the callbacks t1 runs trigger it again from inside, t2
\* triggers it once and the client cancels the handles.
NextCount ==
  \/ Trigger("t1", "s1")
  \/ (ntrig["t2"] = 0 /\ Trigger("t2", "s1"))
  \/ Retrigger("t1")
  \/ \E t \in Threads : RepeatedStep(t)
  \/ \E t \in Threads : Handle(t)
  \/ \E t \in Threads : CallbackReturn(t)
  \/ \E r \in Requests : Cancel(Client, r)
  \/ \E t \in Threads : CancelStep(t)
  \/ \E t \in Threads : UseAfterFree(t)

SpecCount == InitWalk /\ [][NextCount]_vars

\* SpecCas: SpecWalk with start_handling() taken apart into the load of
\* m_handle_count and the rounds of its compare-exchange loop, so that cancel()
\* can change the word between them.
NextCas ==
  \/ \E t \in Triggerers : Trigger(t, "s1")
  \/ \E t \in Threads : TriggerLock(t)
  \/ \E t \in Threads : StartHandlingLoad(t)
  \/ \E t \in Threads : StartHandlingCas(t)
  \/ \E t \in Threads : TriggerBreak(t)
  \/ \E t \in Threads : StopHandling(t)
  \/ \E t \in Threads : StopHandlingSync(t)
  \/ \E t \in Threads : StopHandlingNotify(t)
  \/ \E t \in Threads : Handle(t)
  \/ \E t \in Threads : CallbackReturn(t)
  \/ \E r \in Requests : Cancel(Client, r)
  \/ \E t \in Threads : CancelStep(t)
  \/ \E t \in Threads : UseAfterFree(t)

SpecCas == InitWalk /\ [][NextCas]_vars

\* SpecOneShotWord: SpecOneShotCancel with the calls of handle() recorded.
InitOneShotWord == InitWith(<< <<"o1", NULL>>, <<"o1", NULL>> >>, {"calls"})

SpecOneShotWord == InitOneShotWord /\ [][NextOneShotCancel]_vars

\* SpecSelfCancel: SpecWalk in which the client cancels the handle of r1 only
\* and the callback of r2, when t1 runs it, may call cancel() on r2's handle
\* (a handle is used by one thread only).
NextSelfCancel ==
  \/ \E t \in Triggerers : Trigger(t, "s1")
  \/ \E t \in Threads : RepeatedStep(t)
  \/ \E t \in Threads : Handle(t)
  \/ \E t \in Threads : CallbackReturn(t)
  \/ Cancel(Client, "r1")
  \/ CancelFromCallback("t1", "r2")
  \/ \E t \in Threads : CancelStep(t)
  \/ \E t \in Threads : UseAfterFree(t)

SpecSelfCancel == InitWalk /\ [][NextSelfCancel]_vars

\* SpecList: one repeated server with r1 and r2 without busy interface; t1
\* triggers it MaxTriggers times and t2 once, and the client registers r3 and
\* cancels the handles at any time.
NextList ==
  \/ Trigger("t1", "s1")
  \/ (ntrig["t2"] = 0 /\ Trigger("t2", "s1"))
  \/ \E t \in Threads : RepeatedStep(t)
  \/ \E t \in Threads : Handle(t)
  \/ \E t \in Threads : CallbackReturn(t)
  \/ Request(Client, "s1", NULL)
  \/ \E r \in Requests : Cancel(Client, r)
  \/ \E t \in Threads : CancelStep(t)
  \/ \E t \in Threads : UseAfterFree(t)

SpecList == InitWalk /\ [][NextList]_vars

\* ------------------------------------------------------------ observations
\* The frames of all threads, as <<thread, index>>.
Frames == {<<t, i>> : t \in Threads, i \in 1..Len(RequestSeq) + 3} \cap
          {tf \in Threads \X Nat : tf[2] \in 1..Len(stack[tf[1]])}
FrameOf(tf) == stack[tf[1]][tf[2]]

\* The request whose m_callback a frame is executing, NULL if it executes none:
\* pc "cb" is the call in handle(), pc "rh" the call in rehandle().
CallbackOf(f) ==
  IF f.pc = "cb" THEN f.request
  ELSE IF f.pc = "rh" THEN f.qe.m_request
  ELSE NULL

\* The frames executing a callback bound to busy interface b.
CallbacksOn(b) ==
  {tf \in Frames : CallbackOf(FrameOf(tf)) # NULL
                   /\ m_busy_interface[CallbackOf(FrameOf(tf))] = b}

\* The frames between a start_handling() on r that returned OK and the
\* matching stop_handling().
HoldingPcs == {"handle", "cb", "h_push", "h_unset", "h_pop", "h_again", "rh", "h_back",
               "t_relock"}
Holders(r) ==
  {tf \in Frames : /\ FrameOf(tf).request = r
                   /\ FrameOf(tf).pc \in HoldingPcs
                   /\ ~one_shot(FrameOf(tf).srv)}

\* The handler count held in the state word.
HandlerCount(r) ==
  IF m_handle_count[r] < 0 THEN m_handle_count[r] + s_cancel_marker ELSE m_handle_count[r]

\* cancel() was called on r's handle and has returned.
CancelReturned(r) == alloc[r] # "pool" /\ m_request[r] = NULL
\* cancel() of r is in progress: its fetch_sub is done.
Cancelling(r) ==
  \E tf \in Frames : FrameOf(tf).request = r
                     /\ FrameOf(tf).pc \in {"c_lock", "c_check", "c_wait", "c_clear"}

\* cancel() of r has left Request::cancel: it has returned, or only the
\* m_request = nullptr of RequestHandle::cancel is left to do.
CancelLeftWait(r) ==
  CancelReturned(r) \/ \E tf \in Frames : FrameOf(tf).request = r /\ FrameOf(tf).pc = "c_clear"

\* cancel() of r found handlers in flight and is inside Request::cancel: before
\* the lock of the cancel mutex, checking the predicate, or parked in wait().
CancelWaiting(r) ==
  \E tf \in Frames : FrameOf(tf).request = r
                     /\ FrameOf(tf).pc \in {"c_lock", "c_check", "c_wait"}

\* The frames of walkers that use node r: between an OK start_handling() on r
\* and the end of the matching stop_handling(), or with their cursor on
\* r's m_next.
Using(r) ==
  Holders(r)
  \cup {tf \in Frames : FrameOf(tf).request = r /\ FrameOf(tf).pc \in {"t_sync", "t_notify"}}
  \cup {tf \in Frames : FrameOf(tf).next = r /\ FrameOf(tf).pc = "t_scan"}

\* Thread t is walking the list of server s with the list mutex held and its
\* request = *next is r.
ScanningAt(t, s, r) ==
  /\ At(t, "t_scan") /\ Top(t).srv = s
  /\ m_request_list_mutex[s] = t
  /\ Deref(Top(t).next, s) = r

\* The threads whose current step is inside a user callback.
InCallback == {t \in Threads : ~Idle(t) /\ CallbackOf(Top(t)) # NULL}

\* The mutexes thread t owns.
ListMutexesOf(t) == {s \in Servers : m_request_list_mutex[s] = t}
CancelMutexesOf(t) == {r \in Requests : m_cancel_mutex[r] = t}

\* The nodes a one-shot trigger has detached and still has to free: the chain
\* from its head, or from its request once it is in the loop that frees.
ToFree(f) ==
  IF f.srv = NULL \/ ~one_shot(f.srv) \/ f.pc = "o_detach" THEN {}
  ELSE LET chain == ChainFrom(IF f.pc = "o_free" THEN f.request ELSE f.head,
                              Len(RequestSeq) + 1)
       IN {chain[i] : i \in 1..Len(chain)}

\* Who will free node r: the servers in whose list it is linked and the
\* one-shot triggers that hold it detached.
Owners(r) ==
  {<<"list", s>> : s \in {x \in Servers : r \in Linked(x)}}
  \cup {<<"trigger", tf>> : tf \in {x \in Frames : r \in ToFree(FrameOf(x))}}

\* cancel() was called on r's handle: it is in progress or has returned.
CancelCalled(r) == Cancelling(r) \/ CancelReturned(r)

\* Thread t is inside start_handling() on request r: between the load of
\* m_handle_count and the return.
StartHandlingOn(t, r) ==
  /\ ~Idle(t) /\ Top(t).pc = "t_cas"
  /\ Deref(Top(t).next, Top(t).srv) = r

\* What the walker t does in this step with r, the node start_handling() just
\* returned for: "OK" it goes on to handle(), "REAP" it frees the node, "SKIP"
\* it moves its cursor to it; "none" if start_handling() does not return.
Returns(t, r) ==
  IF ~StartHandlingOn(t, r) \/ crashed' \/ Top(t)'.pc = "t_cas" THEN "none"
  ELSE IF Top(t)'.pc = "handle" /\ Top(t)'.request = r THEN "OK"
  ELSE IF alloc'[r] = "freed" /\ alloc[r] # "freed" THEN "REAP"
  ELSE IF Top(t)'.next = r THEN "SKIP"
  ELSE "other"

\* Walker t, with the list mutex held and request = *next = r, takes its step
\* on r in this step.
WalkerStepsOn(t, r) ==
  /\ ScanningAt(t, server_of[r], r)
  /\ (stack'[t] # stack[t] \/ alloc'[r] # alloc[r])

\* The threads inside rehandle() of an event of busy interface b.
Rehandling(b) ==
  {t \in Threads : ~Idle(t) /\ Top(t).pc = "rh"
                   /\ m_busy_interface[Top(t).qe.m_request] = b}

\* The nodes a one-shot trigger detached: the chain from its head.
DetachedBy(f) ==
  LET chain == ChainFrom(f.head, Len(RequestSeq) + 1)
  IN {chain[i] : i \in 1..Len(chain)}

\* Thread t is inside cancel() of r called from r's own callback: a frame of
\* cancel() on r above a frame that executes r's callback.
SelfCancelling(t, r) ==
  \E i, j \in 1..Len(stack[t]) :
    /\ i < j
    /\ stack[t][i].pc = "cb" /\ stack[t][i].request = r
    /\ stack[t][j].request = r
    /\ stack[t][j].pc \in {"c_lock", "c_check", "c_wait", "c_clear"}

\* The requests registered on server s and not reaped.
RegisteredOn(s) == {r \in Requests : server_of[r] = s /\ alloc[r] = "live"}

\* The node a walker's frame refers to: the request it called start_handling()
\* on, or the node whose m_next its cursor points to; NULL if none.
WalkerNode(f) ==
  IF f.pc \in HoldingPcs \cup {"t_sync", "t_notify"} THEN f.request
  ELSE IF f.pc \in {"t_scan", "t_cas"} /\ f.next # HEAD THEN f.next
  ELSE NULL

\* The QueuedEvents that exist: in the queue of a busy interface, or popped by
\* a drain loop that has not deleted them yet.
Pending ==
  UNION {{m_events[b][i] : i \in 1..Len(m_events[b])} : b \in BusyInterfaces}
  \cup {FrameOf(tf).qe : tf \in {x \in Frames : FrameOf(x).qe # NoEvent}}

\* The QueuedEvents not yet passed to rehandle(): in a queue, or popped by a
\* drain loop that has not called set_busy() for them or is putting them back.
Waiting ==
  UNION {{m_events[b][i] : i \in 1..Len(m_events[b])} : b \in BusyInterfaces}
  \cup {FrameOf(tf).qe : tf \in {x \in Frames : FrameOf(x).pc \in {"h_again", "h_back"}}}
EventWaiting(r, d) == \E e \in Waiting : e.m_request = r /\ e.m_data = d

\* handle() of r for trigger d was refused by set_busy() and is about to create
\* the QueuedEvent.
Queueing(r, d) ==
  \E tf \in Frames :
    FrameOf(tf).pc = "h_push" /\ FrameOf(tf).request = r /\ FrameOf(tf).data = d

\* The trigger() call named d was made and has returned.
Returned(d) ==
  /\ d[2] <= ntrig[d[1]]
  /\ \A tf \in Frames : FrameOf(tf).data # d

\* The cancel marker is in r's state word.
Canceled(r) == m_handle_count[r] < 0

\* No call of the library is in progress.
Quiescent == \A t \in Threads : Idle(t)

\* A one-shot trigger detached r; the detaching trigger has gone through its
\* first loop (it is freeing the nodes, or has returned).
Detached(r) == detached_by[r] # NoData
Walked(r) ==
  /\ Detached(r)
  /\ \A tf \in Frames : FrameOf(tf).data = detached_by[r] => FrameOf(tf).pc = "o_free"

\* ------------------------------------------------------------ C1
\* C1 (P1): at any instant at most one callback bound to a given busy interface
\* is executing, whether called from RequestWithBI::handle or from rehandle in
\* the drain loop, for all interleavings of the triggering threads.
C1_MutualExclusion ==
  \A b \in BusyInterfaces : Cardinality(CallbacksOn(b)) <= 1

\* A callback bound to b1 runs (from the drain loop) while another thread is in
\* handle() for the same interface and was refused by set_busy().
C1_Witness ==
  \E t, u \in Threads :
    /\ t # u
    /\ ~Idle(t) /\ Top(t).pc = "rh"
    /\ ~Idle(u) /\ Top(u).pc = "h_push"
    /\ m_busy_interface[Top(t).request] = m_busy_interface[Top(u).request]

\* ------------------------------------------------------------ C2
\* C2 (P2): once cancel() has returned for a request's handle, the request's
\* callback is not executing, and so is never invoked afterwards: not by a
\* trigger and not by the drain of an event queued before the cancel.
C2_CancelBarrier ==
  \A r \in Requests :
    CancelReturned(r) => ~\E tf \in Frames : CallbackOf(FrameOf(tf)) = r

\* ------------------------------------------------------------ C9
\* C9: a QueuedEvent that exists, queued or popped and not yet rehandled, keeps
\* its Request alive: the node it refers to has not been returned to the pool.
C9_QueuedEventOwnsRequest ==
  \A e \in Pending : alloc[e.m_request] # "freed"

\* ------------------------------------------------------------ C10
\* C10: while an event queued for request r has not been rehandled, r's handler
\* count is greater than zero, and so no cancel() of r has returned.
C10_PendingRehandleCounted ==
  \A e \in Pending :
    /\ HandlerCount(e.m_request) > 0
    /\ ~CancelReturned(e.m_request)

\* ------------------------------------------------------------ C3
\* C3 (cancel handshake, repeated mode): a cancel() that has left its wait, or
\* has returned, finds no thread between an OK start_handling() and the matching
\* stop_handling() on the request and the state word at -s_cancel_marker; and
\* from the cancel's fetch_sub on no start_handling() on the request returns OK:
\* no frame starts to hold it.
C3_CancelHandshake ==
  /\ [](\A r \in Requests :
          CancelLeftWait(r) => Holders(r) = {} /\ m_handle_count[r] = -s_cancel_marker)
  /\ [][\A r \in Requests :
          (Cancelling(r) \/ CancelReturned(r)) => Holders(r)' \subseteq Holders(r)]_vars

\* The canceller is parked in wait() while both triggering threads are between
\* start_handling() and stop_handling() on the request.
C3_Witness ==
  \E r \in Requests :
    /\ \E tf \in Frames : FrameOf(tf).request = r /\ FrameOf(tf).pc = "c_wait"
    /\ Cardinality(Holders(r)) = 2

\* ------------------------------------------------------------ C4
\* C4 (P3) as stated: in repeated mode, for every trigger t and every request r
\* registered on the server before t started and not cancelled before t
\* acquired the list mutex, once t has returned and no event of t for r waits
\* in a queue, the callback of r was invoked exactly once on account of t.
C4_DeliveryCompleteness ==
  \A x \in expected :
    Returned(x[2]) /\ ~EventWaiting(x[1], x[2]) => Count(delivered, x[1], x[2]) = 1

\* C4 (P3) amended: the request must not be cancelled before the walk of t
\* performs start_handling() on it.  handle() is called at most once per
\* trigger and request, and exactly once by the time t returns unless the
\* request is cancelled; every call of handle() leads to exactly one of: the
\* callback was invoked once (directly or by rehandle), or one QueuedEvent for
\* it waits or is being created; the callback is never invoked without handle().
C4_DeliveryUnlessCanceled ==
  /\ \A x \in BagToSet(delivered) :
       delivered[x] = 1 /\ Count(handled, x[1], x[2]) = 1
  /\ \A x \in BagToSet(handled) :
       /\ handled[x] = 1
       /\ Cardinality({k \in {"delivered", "waiting", "queueing"} :
             \/ k = "delivered" /\ Count(delivered, x[1], x[2]) = 1
             \/ k = "waiting" /\ EventWaiting(x[1], x[2])
             \/ k = "queueing" /\ Queueing(x[1], x[2])}) = 1
  /\ \A x \in expected :
       Returned(x[2]) => Count(handled, x[1], x[2]) = 1 \/ Canceled(x[1])

\* A trigger has returned that delivered to one request it was expected to
\* deliver to and skipped another: the other was cancelled after the trigger
\* took the list mutex and before its walk reached it.
C4_Witness ==
  \E x, y \in expected :
    /\ x[2] = y[2] /\ Returned(x[2])
    /\ Count(delivered, x[1], x[2]) = 1
    /\ Count(handled, y[1], y[2]) = 0 /\ Canceled(y[1])

\* ------------------------------------------------------------ C5
\* C5 (P4) as stated: on a one-shot server handle() is called on a node only by
\* the trigger that detached it and only once, and it was called by the end of
\* that trigger's first loop, also under concurrent triggers; after the detach
\* the node is not reachable from any server, and a trigger that starts later
\* invokes none of those callbacks.
C5_OneShotOnce ==
  /\ \A x \in BagToSet(handled) : handled[x] = 1 /\ detached_by[x[1]] = x[2]
  /\ \A r \in Requests :
       /\ Walked(r) => Count(handled, r, detached_by[r]) = 1
       /\ Detached(r) => \A s \in Servers : r \notin Linked(s)
  /\ \A tf \in Frames : CallbackOf(FrameOf(tf)) \notin FrameOf(tf).gone

\* C5 (P4) amended: the same, except that a trigger that starts later never
\* calls handle() on the request, and invokes its callback only when its drain
\* loop rehandles an event that the detaching trigger queued.
C5_OneShotOnceOrDrained ==
  /\ \A x \in BagToSet(handled) : handled[x] = 1 /\ detached_by[x[1]] = x[2]
  /\ \A r \in Requests :
       /\ Walked(r) => Count(handled, r, detached_by[r]) = 1
       /\ Detached(r) => \A s \in Servers : r \notin Linked(s)
  /\ \A tf \in Frames :
       /\ FrameOf(tf).request \notin FrameOf(tf).gone
       /\ CallbackOf(FrameOf(tf)) \in FrameOf(tf).gone => FrameOf(tf).pc = "rh"

\* The drain loop of a trigger rehandles the event of a request that was
\* detached before that trigger started.
C5_Witness ==
  \E tf \in Frames :
    FrameOf(tf).pc = "rh" /\ FrameOf(tf).qe.m_request \in FrameOf(tf).gone

\* ------------------------------------------------------------ C6
\* C6 (manual busy bracket): when the client has closed its bracket with
\* unset_busy() and no trigger is in progress, the drain has happened: no event
\* is left in the queue and every handle() call has led to its callback.
C6_ManualBracket ==
  \A b \in BusyInterfaces :
    Quiescent /\ manual[b] = 0 => m_events[b] = <<>> /\ delivered = handled

\* ------------------------------------------------------------ C7
\* C7 (drain liveness): with the busy interface entered only through
\* RequestWithBI::handle, once all trigger() calls have returned the depth is 0,
\* the queue is empty and the callbacks were invoked as often as handle() was
\* called, for every request and trigger.
C7_DrainLiveness ==
  Quiescent =>
    /\ \A b \in BusyInterfaces : m_busy_depth[b] = 0 /\ m_events[b] = <<>>
    /\ delivered = handled

\* All triggers were made and have returned, and two of them had their event
\* queued.
C7_Witness ==
  /\ Quiescent
  /\ \A t \in Triggerers : ntrig[t] = MaxTriggers
  /\ pushed["b1"] >= 2

\* ------------------------------------------------------------ C8
\* C8 (P5): when an event is passed to rehandle, every event of the same busy
\* interface that was pushed before it and still waits is one that the
\* race-recovery branch of the drain loop put back.
C8_FifoDrain ==
  \A tf \in Frames :
    FrameOf(tf).pc = "rh" =>
      \A e \in Waiting :
        (/\ m_busy_interface[e.m_request] = m_busy_interface[FrameOf(tf).qe.m_request]
         /\ e.seq < FrameOf(tf).qe.seq) => e.back

\* ------------------------------------------------------------ C11
\* C11 (per-subscriber ordering): if one trigger performed its start_handling()
\* on request r (under the list mutex) before another trigger did, then whenever
\* r's callback has been invoked for the later trigger's event it was invoked
\* for the earlier trigger's event before that, with or without busy interface.
C11_SubscriberOrder ==
  \A i, j \in 1..Len(log) :
    (i < j /\ log[i][1] = "start" /\ log[j][1] = "start" /\ log[i][2] = log[j][2]) =>
      \A k \in 1..Len(log) :
        log[k] = <<"call", log[j][2], log[j][3]>> =>
          \E m \in 1..(k - 1) : log[m] = <<"call", log[i][2], log[i][3]>>

\* ------------------------------------------------------------ C12
\* C12 (re-entrant trigger): when callbacks of repeated-mode requests call
\* trigger() on their own server a bounded number of times, the handler count of
\* every request is at all times the number of calls (nested ones included)
\* between start_handling() and stop_handling() on it, so it is back to its
\* former value when a trigger has returned; and every thread inside a trigger
\* gets out of it: the nested triggers return and the outer one completes.
C12_ReentrantTrigger ==
  /\ [](\A r \in Requests : m_handle_count[r] = Cardinality(Holders(r)))
  /\ \A t \in Threads : [](~Idle(t) => <>Idle(t))

\* A thread is two triggers deep inside the callback of a request it holds
\* twice.
C12_Witness ==
  \E t \in Threads :
    /\ Depth(t) >= 2 /\ Top(t).pc = "cb"
    /\ Cardinality({tf \in Holders(Top(t).request) : tf[1] = t}) >= 2

\* ------------------------------------------------------------ C13
\* C13 (single cancel): the cancel marker is subtracted from a request's state
\* word at most once; the handle's reference is cleared only after
\* Request::cancel was done, and a handle without reference belongs to a
\* cancelled request or to none; a cancel() that fails its assertion changes no
\* request's state.
C13_SingleCancel ==
  /\ [](\A r \in Requests :
          /\ m_handle_count[r] >= -s_cancel_marker
          /\ Cancelling(r) => m_request[r] = r /\ Canceled(r)
          /\ CancelReturned(r) => Canceled(r))
  /\ [][(~crashed /\ crashed') =>
          /\ m_handle_count' = m_handle_count
          /\ m_request' = m_request /\ alloc' = alloc]_vars

\* The process ended in the assertion of a second cancel() on the handle of a
\* request whose first cancel() had returned: no thread was touching a freed
\* node.
C13_Witness ==
  /\ crashed
  /\ \E r \in Requests : CancelReturned(r) /\ m_handle_count[r] = -s_cancel_marker
  /\ \A t \in Threads : Dereferenced(t) # NULL => alloc[Dereferenced(t)] # "freed"

\* ------------------------------------------------------------ C14
\* C14 (unbalanced unset): the depth of a busy interface never goes below 0,
\* that is, never wraps around to a large unsigned value (kept here as the
\* negative signed reading of the 32 bits): an unset_busy() at depth 0 is
\* stopped by an assertion.
C14_DepthNeverBelowZero ==
  \A b \in BusyInterfaces : m_busy_depth[b] >= 0

\* ------------------------------------------------------------ C15
\* C15 (P6): once every handle has been cancelled and every call has returned
\* (the state in which the servers, handles and busy interfaces are destroyed;
\* their destructors are the implicit ones and touch no node), every Request
\* node that was allocated has been returned to the pool and no QueuedEvent
\* is left.
C15_NoLeak ==
  (/\ ~crashed
   /\ Quiescent
   /\ \A r \in Requests : alloc[r] # "pool" => CancelReturned(r))
  => /\ \A r \in Requests : alloc[r] \in {"pool", "freed"}
     /\ Pending = {}

\* ------------------------------------------------------------ C16
\* C16 (no lost wakeup): under fair scheduling a cancel() that found handlers
\* in flight returns eventually once all those handlers have called
\* stop_handling(), for every interleaving of the canceller's steps with the
\* last handler's steps.
C16_NoLostWakeup ==
  \A r \in Requests :
    [](CancelWaiting(r) /\ Holders(r) = {} => <>CancelReturned(r))

\* ------------------------------------------------------------ C17
\* C17 (race recovery): the drain loop puts the event it popped back at the
\* front of the queue, where the next pop() finds it first: in every queue the
\* events that were put back are ahead of all events that were not.
C17_PutBackAtFront ==
  \A b \in BusyInterfaces :
    \A i, j \in 1..Len(m_events[b]) :
      (i < j /\ m_events[b][j].back) => m_events[b][i].back

\* ------------------------------------------------------------ C18
\* C18 (reclamation safety, repeated mode): a node that was freed is in use by
\* no walker: no thread is between an OK start_handling() and the end of its
\* stop_handling() on it, or has its cursor on it; and a node is freed only in
\* a step of a walker that holds the list mutex and finds the node's state
\* word at exactly -s_cancel_marker (REAP), and that step unlinks it.
C18_ReclamationSafety ==
  /\ [](\A r \in Requests : alloc[r] = "freed" => Using(r) = {})
  /\ [][\A r \in Requests :
          (alloc[r] # "freed" /\ alloc'[r] = "freed") =>
            /\ m_handle_count[r] = -s_cancel_marker
            /\ \E t \in Threads : ScanningAt(t, server_of[r], r)
            /\ r \in Linked(server_of[r])
            /\ r \notin Linked(server_of[r])']_vars

\* r2 was reaped and freed by one walker while the other walker, which has
\* released the list mutex, is inside the callback of r1.
C18_Witness ==
  /\ alloc["r2"] = "freed"
  /\ \E tf \in Frames : FrameOf(tf).pc = "cb" /\ FrameOf(tf).request = "r1"
  /\ \E t \in Threads : At(t, "t_scan") /\ m_request_list_mutex["s1"] = t

\* ------------------------------------------------------------ C19
\* C19 (one-shot detach against cancel): every cancel() on the handle of a
\* one-shot request, when it does its fetch_sub on the node, finds the node
\* allocated and still linked in the server's list: never a node that a
\* trigger has detached or has returned to the pool.
C19_DetachedNodeUnreachable ==
  [][\A r \in Requests :
       (one_shot(server_of[r]) /\ ~Canceled(r) /\ Canceled(r)') =>
         alloc[r] = "live" /\ r \in Linked(server_of[r])]_vars

\* ------------------------------------------------------------ C20
\* C20 (lock discipline): in every reachable state in which a thread executes
\* a user callback, called from Request::handle, from RequestWithBI::handle or
\* from rehandle, that thread owns no server's list mutex and no request's
\* cancel mutex.  (The events mutex is taken and released inside
\* BusyInterface::push and pop, each a single step here, so it is never owned
\* in any state.)
C20_LockDiscipline ==
  \A t \in InCallback : ListMutexesOf(t) = {} /\ CancelMutexesOf(t) = {}

\* A callback called from rehandle executes while another thread walks the
\* list of the same server with the list mutex held.
C20_Witness ==
  \E t \in InCallback :
    /\ Top(t).pc = "rh"
    /\ \E u \in Threads \ {t} : m_request_list_mutex[Top(t).srv] = u

C22_SignIffCanceled ==
  \A r \in Requests : Canceled(r) <=> (Cancelling(r) \/ CancelReturned(r))

\* ------------------------------------------------------------ C23
\* C23 (handler count accuracy): for a repeated-mode request the state word,
\* plus s_cancel_marker if cancel() was called on it, is the number of frames
\* (nested re-entrant triggers of one thread counted each) between a
\* start_handling() that returned OK and the matching stop_handling(); it is
\* never negative.
C23_HandlerCountAccurate ==
  \A r \in Requests :
    (server_of[r] # NULL /\ ~one_shot(server_of[r])) =>
      LET count == m_handle_count[r] + (IF CancelCalled(r) THEN s_cancel_marker ELSE 0)
      IN count = Cardinality(Holders(r)) /\ count >= 0

\* cancel() of a request is waiting while a thread holds the request twice,
\* through a trigger from inside its callback, and the other thread once.
C23_Witness ==
  \E r \in Requests :
    /\ CancelWaiting(r)
    /\ m_handle_count[r] = 3 - s_cancel_marker
    /\ \E t \in Threads : Cardinality({tf \in Holders(r) : tf[1] = t}) = 2

\* ------------------------------------------------------------ C24
\* C24 (start_handling result): when start_handling() returns, with w the state
\* word at that moment: it returned REAP and w is -s_cancel_marker and stays,
\* or it returned SKIP and w is negative, not -s_cancel_marker, and stays, or
\* it returned OK, w is not negative and the word becomes w + 1; also when
\* cancel() changed the word after start_handling() loaded it.
C24_StartHandlingResult ==
  [][\A t \in Threads : \A r \in Requests :
       LET w == m_handle_count[r]
           result == Returns(t, r)
       IN
       /\ StartHandlingOn(t, r) => Top(t)'.pc \in {"t_cas", "t_scan", "handle"}
       /\ result # "other"
       /\ result = "REAP" <=> (StartHandlingOn(t, r) /\ Top(t)'.pc # "t_cas"
                               /\ w = -s_cancel_marker)
       /\ result = "SKIP" <=> (StartHandlingOn(t, r) /\ Top(t)'.pc # "t_cas"
                               /\ w < 0 /\ w # -s_cancel_marker)
       /\ result = "OK" <=> (StartHandlingOn(t, r) /\ Top(t)'.pc # "t_cas" /\ w >= 0)
       /\ result = "OK" => m_handle_count'[r] = w + 1
       /\ result \in {"REAP", "SKIP"} => m_handle_count'[r] = w]_vars

\* A walker loaded a non-negative word and cancel() made it negative before
\* the walker's compare-exchange.
C24_Witness ==
  \E t \in Threads : \E r \in Requests :
    /\ StartHandlingOn(t, r)
    /\ Top(t).handle_count >= 0
    /\ m_handle_count[r] < 0

\* ------------------------------------------------------------ C25
\* C25 (reaping on the next walk): a cancelled repeated-mode request leaves its
\* server's list only by the step of a walker that reaches it; a walker that
\* reaches it while its word is -s_cancel_marker unlinks and frees it, does not
\* call handle() and keeps its cursor; a walker that reaches it while handlers
\* are in flight leaves it linked and allocated, does not call handle() and
\* moves its cursor to the node.
C25_ReapOnNextWalk ==
  [][\A r \in Requests :
       LET s == server_of[r]
           w == m_handle_count[r]
       IN
       (s # NULL /\ ~one_shot(s) /\ w < 0 /\ r \in Linked(s)) =>
         /\ r \notin Linked(s)' => \E t \in Threads : WalkerStepsOn(t, r)
         /\ \A t \in Threads :
              WalkerStepsOn(t, r) =>
                /\ Top(t)'.pc = "t_scan"
                /\ m_handle_count'[r] = w
                /\ IF w = -s_cancel_marker
                   THEN /\ r \notin Linked(s)' /\ alloc'[r] = "freed"
                        /\ Top(t)'.next = Top(t).next
                   ELSE /\ r \in Linked(s)' /\ alloc'[r] = alloc[r]
                        /\ Top(t)'.next = r]_vars

\* One walker has stepped over r2, cancelled while the other walker is inside
\* its callback: r2 is still linked and the first walker's cursor is on it.
C25_Witness ==
  \E t \in Threads :
    /\ At(t, "t_scan") /\ Top(t).next = "r2"
    /\ m_handle_count["r2"] = 1 - s_cancel_marker
    /\ "r2" \in Linked("s1")
    /\ \E tf \in Frames : FrameOf(tf).pc = "cb" /\ FrameOf(tf).request = "r2"

\* ------------------------------------------------------------ C26
\* C26 (rehandle only when busy): while rehandle() of a queued event runs, the
\* depth of its busy interface is at least 1, and a thread enters rehandle()
\* only in the step of its own set_busy() in the drain loop, which found the
\* depth at 0 (returned true) and left it at 1.
C26_RehandleOnlyWhenBusy ==
  /\ [](\A b \in BusyInterfaces : Rehandling(b) # {} => m_busy_depth[b] >= 1)
  /\ [][\A b \in BusyInterfaces : \A t \in Rehandling(b)' :
          t \notin Rehandling(b) =>
            /\ ~Idle(t) /\ Top(t).pc = "h_again"
            /\ m_busy_interface[Top(t).request] = b
            /\ m_busy_depth[b] = 0
            /\ m_busy_depth'[b] = 1]_vars

\* rehandle() runs while the client is inside its own set_busy() /
\* unset_busy() bracket: the depth is 2.
C26_Witness ==
  /\ Rehandling("b1") # {}
  /\ manual["b1"] = 1
  /\ m_busy_depth["b1"] = 2

\* ------------------------------------------------------------ C27
\* C27 (no serialization without busy interface): nothing holds a second
\* thread back from the callback of a request without busy interface: a walker
\* that reaches a request that is not cancelled always goes on to handle() of
\* that request and releases the list mutex, however many threads are handling
\* it, and a thread in handle() of such a request can always enter the
\* callback.  (The state with both threads inside is C27_Witness.)
C27_NoSerialization ==
  /\ [][\A r \in Requests : \A u \in Threads :
          (WalkerStepsOn(u, r) /\ m_handle_count[r] >= 0) =>
            /\ Top(u)'.pc = "handle" /\ Top(u)'.request = r
            /\ m_request_list_mutex'[server_of[r]] = NoThread]_vars
  /\ [](\A u \in Threads :
          (At(u, "handle") /\ m_busy_interface[Top(u).request] = NULL) =>
            ENABLED Handle(u))

\* Both triggering threads are inside the callback of the same request at the
\* same time.
C27_Witness ==
  \E r \in Requests :
    /\ m_busy_interface[r] = NULL
    /\ \A t \in Triggerers : ~Idle(t) /\ Top(t).pc = "cb" /\ Top(t).request = r

C29_SelfCancelNeverReturns ==
  /\ [](\A t \in Threads : \A r \in Requests :
          SelfCancelling(t, r) =>
            /\ m_handle_count[r] > -s_cancel_marker
            /\ Top(t).request = r /\ Top(t).pc \in {"c_lock", "c_check", "c_wait"}
            /\ m_request[r] = r)
  /\ [][\A t \in Threads : \A r \in Requests :
          SelfCancelling(t, r) => SelfCancelling(t, r)']_vars

\* The thread is parked in the wait of a cancel() it called from the callback
\* of r2, and it is the only handler of r2 left.
C29_Witness ==
  \E t \in Threads :
    /\ SelfCancelling(t, "r2")
    /\ Top(t).pc = "c_wait"
    /\ m_handle_count["r2"] = 1 - s_cancel_marker
    /\ \A u \in Threads \ {t} : Idle(u)

\* ------------------------------------------------------------ C30
\* C30 (list integrity): the list of a repeated server holds no node twice (it
\* is acyclic) and holds exactly the requests registered on it and not reaped;
\* the node a walker is handling, or has its cursor on, is in the list; a
\* request() adds its node at the head and leaves the rest of the list as it
\* was, also while a walker is inside handle() with the mutex released; and a
\* walker that returns from handle() goes on from the node it handled.
C30_ListIntegrity ==
  /\ [](\A s \in RepeatedServers :
          /\ Len(ListOf(s)) = Cardinality(Linked(s))
          /\ Linked(s) = RegisteredOn(s)
          /\ \A tf \in Frames :
               (FrameOf(tf).srv = s /\ WalkerNode(FrameOf(tf)) # NULL) =>
                 WalkerNode(FrameOf(tf)) \in Linked(s))
  /\ [][\A s \in RepeatedServers :
          /\ \A r \in Requests :
               (alloc[r] = "pool" /\ alloc'[r] = "live" /\ server_of'[r] = s) =>
                 ListOf(s)' = <<r>> \o ListOf(s)
          /\ \A t \in Threads :
               (~Idle(t) /\ Top(t).pc = "t_relock" /\ Top(t).srv = s
                /\ stack'[t] # stack[t]) =>
                 /\ m_request_list_mutex'[s] = t
                 /\ Top(t)'.pc = "t_sync" \/ (Top(t)'.pc = "t_scan"
                                              /\ Top(t)'.next = Top(t).request)]_vars

\* request() has put r3 at the head of the list while a walker is inside the
\* callback of r2 with the list mutex released, and r1 was reaped.
C30_Witness ==
  /\ ListOf("s1") = <<"r3", "r2">>
  /\ alloc["r1"] = "freed"
  /\ m_request_list_mutex["s1"] = NoThread
  /\ \E tf \in Frames : FrameOf(tf).pc = "cb" /\ FrameOf(tf).request = "r2"

====
